---- MODULE Spec2Model ----
(***************************************************************************)
(* The Reunion client Exchange (client/exchange.go): the per-contact state *)
(* machine driving the T1 / T2 / T3 sequence against a bulletin board.     *)
(*                                                                         *)
(* Messages are symbolic: a T1 is named by the session that generated it,  *)
(* a T2 / T3 by its sender and by the session whose key material it was    *)
(* built for.  SHA-256 is an injective constructor.  Go maps are TLA+      *)
(* functions whose DOMAIN is the key set; a range loop over a map visits   *)
(* its keys in an arbitrary order.                                         *)
(***************************************************************************)
EXTENDS Naturals, FiniteSets, Sequences, Bags, TLC

\* ------------------------------------------------------------- bounds
\* Longest Messages list of one adversarial FetchState response.
MaxMsgs == 1
\* Acknowledged sends of one kind to one destination that are still counted.
MaxAck == 2
\* Result updates of one Exchange that are still counted.
MaxResults == 2
\* Largest capacity of an update channel the caller hands to NewExchange.
MaxCap == 1

\* ---------------------------------------------------------- constants
initialState == 0
t1MessageSentState == 1

\* ------------------------------------------------------------ sessions
\* The sessions are A, B, C and D.  A, B and D share a passphrase, C has
\* another one; all share the epoch and the shared random value.
Passphrase(s) == IF s = "C" THEN "world" ELSE "hello"

Payload(s) == CASE s = "A" -> "AAA" [] s = "B" -> "BBB" [] s = "C" -> "CCC" [] OTHER -> "DDD"

\* ------------------------------------------------------------ messages
Msg(t, s, to) == [t |-> t, s |-> s, to |-> to]

\* A nil / empty byte slice.
Nil == Msg("nil", "-", "-")

\* A byte string that is no well-formed T1.
JunkT1 == Msg("junk", "-", "-")

\* sha256 of a message.
Hash(m) == [sha |-> m]

\* Session.GenerateType1Message: the T1 of session s.
GenerateType1Message(s) == Msg("t1", s, "-")

\* crypto.DecodeT1Message: the structural split, which fails on a
\* malformed T1.
DecodeT1MessageOK(t1) == t1.t = "t1"

\* The alpha part of a decodable T1: the session it belongs to.
T1Alpha(t1) == t1.s

\* The beta and gamma parts of a decodable T1.
T1Beta(t1) == t1.s

T1Gamma(t1) == t1.s

\* Session.ProcessType1MessageAlpha, public key: the peer's alpha decoded
\* under s's passphrase-derived key is the peer's alpha only when the
\* passphrases agree.
AlphaPubKey(s, alpha) == [of |-> alpha, good |-> Passphrase(s) = Passphrase(alpha)]

\* Session.ProcessType1MessageAlpha, T2: built by s for the alpha it decoded.
ProcessType1MessageAlpha(s, alpha) == Msg("t2", s, alpha)

\* Session.GetCandidateKey: the key session s derives from a T2 and the
\* stored alpha of its source; it is the sender's beta key only when the T2
\* was built by the owner of that alpha for s's own alpha, both decoded
\* under the same passphrase.
GetCandidateKey(s, t2, alphaKey) ==
    IF /\ t2.t = "t2"
       /\ t2.to = s
       /\ alphaKey.of = t2.s
       /\ alphaKey.good
       /\ Passphrase(t2.s) = Passphrase(s)
    THEN [key |-> t2.s]
    ELSE [key |-> "garbage"]

\* crypto.DecryptT1Beta: AEAD-open of the T1's beta under the candidate key.
DecryptT1BetaOK(candidateKey, t1beta) == candidateKey.key = t1beta

DecryptT1Beta(candidateKey, t1beta) == [beta |-> t1beta]

\* Session.ComposeType3Message: s's T3 for the owner of beta.
ComposeType3Message(s, beta) == Msg("t3", s, beta.beta)

\* Session.ProcessType3Message: succeeds when the T3 was composed for s by
\* the owner of beta and gamma is that sender's gamma.
ProcessType3MessageOK(s, t3, gamma, beta) ==
    /\ t3.t = "t3"
    /\ t3.to = s
    /\ t3.s = beta.beta
    /\ gamma = t3.s

ProcessType3Message(s, t3, gamma, beta) == Payload(gamma)

\* ---------------------------------------------------------------- maps
EmptyMap == << >>

Put(m, k, v) == [x \in (DOMAIN m) \cup {k} |-> IF x = k THEN v ELSE m[x]]

Has(m, k) == k \in DOMAIN m

\* --------------------------------------------------------------- state
VARIABLES
    pc,                 \* where each Exchange's Run is
    status,             \* Exchange.status
    sentT1,             \* Exchange.sentT1
    sentT2Map,          \* Exchange.sentT2Map
    repliedT1s,         \* Exchange.repliedT1s
    repliedT2s,         \* Exchange.repliedT2s
    receivedT1s,        \* Exchange.receivedT1s
    receivedT2s,        \* Exchange.receivedT2s
    receivedT3s,        \* Exchange.receivedT3s
    receivedT1Alphas,   \* Exchange.receivedT1Alphas
    decryptedT1Betas,   \* Exchange.decryptedT1Betas
    todo,               \* keys the running range loop has not visited yet
    processed,          \* processT3Messages' local `processed`
    shutdown,           \* whether shutdownChan is closed
    halt,               \* why Run returned, "" while it runs
    board,              \* the bulletin board: commands acknowledged OK
    issued,             \* per Exchange, the <<command, dst>> of the queries made
    acked,              \* per Exchange, the bag of <<command, dst>> acknowledged OK
    nResults,           \* per Exchange, how many result updates were emitted
    nErrors,            \* per Exchange, how many error updates its Run emitted
    lastUpdate,         \* per Exchange, the last update emitted on updateChan
    lastFields,         \* per Exchange, the fields set in that update
    lateUpdate,         \* per Exchange, whether an update followed a result
    snapshot,           \* per Exchange, the Serialized of the last snapshot update
    updateChan,         \* Exchange.updateChan: its capacity and the updates it buffers
    busy                \* per Exchange, whether the consumer is away from its receive

exvars == <<status, sentT1, sentT2Map, repliedT1s, repliedT2s, receivedT1s,
            receivedT2s, receivedT3s, receivedT1Alphas, decryptedT1Betas>>

obsvars == <<issued, acked, nResults, nErrors, lastUpdate, lastFields, lateUpdate, snapshot,
             updateChan, busy>>

vars == <<pc, exvars, todo, processed, shutdown, halt, board, obsvars>>

\* The Exchanges of the run.
Exchanges == DOMAIN pc

\* make(chan ReunionUpdate, cap), done by the caller.
MakeChan(cap) == [cap |-> cap, buf |-> <<>>]

\* NewExchange for every Exchange of E on an update channel like chan, Run
\* not yet entered, the consumer at its receive.
NewExchange(E, chan) ==
    /\ pc = [e \in E |-> "run"]
    /\ status = [e \in E |-> initialState]
    /\ sentT1 = [e \in E |-> Nil]
    /\ sentT2Map = [e \in E |-> EmptyMap]
    /\ repliedT1s = [e \in E |-> EmptyMap]
    /\ repliedT2s = [e \in E |-> EmptyMap]
    /\ receivedT1s = [e \in E |-> EmptyMap]
    /\ receivedT2s = [e \in E |-> EmptyMap]
    /\ receivedT3s = [e \in E |-> EmptyMap]
    /\ receivedT1Alphas = [e \in E |-> EmptyMap]
    /\ decryptedT1Betas = [e \in E |-> EmptyMap]
    /\ todo = [e \in E |-> {}]
    /\ processed = [e \in E |-> FALSE]
    /\ shutdown = [e \in E |-> FALSE]
    /\ halt = [e \in E |-> ""]
    /\ board = {}
    /\ issued = [e \in E |-> {}]
    /\ acked = [e \in E |-> EmptyBag]
    /\ nResults = [e \in E |-> 0]
    /\ nErrors = [e \in E |-> 0]
    /\ lastUpdate = [e \in E |-> [kind |-> "none", result |-> "-"]]
    /\ lastFields = [e \in E |-> {}]
    /\ lateUpdate = [e \in E |-> FALSE]
    /\ snapshot = [e \in E |-> Nil]
    /\ updateChan = [e \in E |-> chan]
    /\ busy = [e \in E |-> FALSE]

Init == NewExchange({"A"}, MakeChan(0))

\* ------------------------------------------------------------ control
\* Run goes on at p.
Goto(e, p) ==
    /\ pc' = [pc EXCEPT ![e] = p]
    /\ UNCHANGED halt

\* Run returns.
Return(e, why) ==
    /\ pc' = [pc EXCEPT ![e] = "done"]
    /\ halt' = [halt EXCEPT ![e] = why]

\* ------------------------------------------------------------ snapshots
\* The contact an Exchange is for, and its crypto Session: fixed at
\* NewExchange, named after the Exchange.
ContactID(e) == e

Session(e) == e

\* The fields of Exchange e that Marshal reads and Unmarshal sets.
Fields(e) ==
    [contactID |-> ContactID(e),
     status |-> status[e],
     session |-> Session(e),
     sentT1 |-> sentT1[e],
     sentT2Map |-> sentT2Map[e],
     receivedT1s |-> receivedT1s[e],
     receivedT2s |-> receivedT2s[e],
     receivedT3s |-> receivedT3s[e],
     repliedT1s |-> repliedT1s[e],
     repliedT2s |-> repliedT2s[e],
     receivedT1Alphas |-> receivedT1Alphas[e],
     decryptedT1Betas |-> decryptedT1Betas[e]]

\* (mutant) The sent T1 is left out of the snapshot.
MarshalFieldsWithoutT1(x) ==
    [ContactID |-> x.contactID,
     Status |-> x.status,
     Session |-> x.session,
     SentT1 |-> Nil,
     SentT2Map |-> x.sentT2Map,
     ReceivedT1s |-> x.receivedT1s,
     ReceivedT2s |-> x.receivedT2s,
     ReceivedT3s |-> x.receivedT3s,
     RepliedT1s |-> x.repliedT1s,
     RepliedT2s |-> x.repliedT2s,
     ReceivedT1Alphas |-> x.receivedT1Alphas,
     DecryptedT1Betas |-> x.decryptedT1Betas]

\* Exchange.Marshal on the fields x: the serializableExchange it fills, which
\* the codec writes as a map keyed by the struct's field names.
MarshalFields(x) ==
    [ContactID |-> x.contactID,
     Status |-> x.status,
     Session |-> x.session,
     SentT1 |-> x.sentT1,
     SentT2Map |-> x.sentT2Map,
     ReceivedT1s |-> x.receivedT1s,
     ReceivedT2s |-> x.receivedT2s,
     ReceivedT3s |-> x.receivedT3s,
     RepliedT1s |-> x.repliedT1s,
     RepliedT2s |-> x.repliedT2s,
     ReceivedT1Alphas |-> x.receivedT1Alphas,
     DecryptedT1Betas |-> x.decryptedT1Betas]

\* Exchange.Marshal.
Marshal(e) == MarshalFields(Fields(e))

\* (mutant) The status is not read back and stays the zero value.
UnmarshalWithoutStatus(data) ==
    [contactID |-> data.ContactID,
     status |-> initialState,
     session |-> data.Session,
     sentT1 |-> data.SentT1,
     sentT2Map |-> data.SentT2Map,
     receivedT1s |-> data.ReceivedT1s,
     receivedT2s |-> data.ReceivedT2s,
     receivedT3s |-> data.ReceivedT3s,
     repliedT1s |-> data.RepliedT1s,
     repliedT2s |-> data.RepliedT2s,
     receivedT1Alphas |-> data.ReceivedT1Alphas,
     decryptedT1Betas |-> data.DecryptedT1Betas]

\* (mutant) The replied maps are not read back.
UnmarshalWithoutReplied(data) ==
    [contactID |-> data.ContactID,
     status |-> data.Status,
     session |-> data.Session,
     sentT1 |-> data.SentT1,
     sentT2Map |-> data.SentT2Map,
     receivedT1s |-> data.ReceivedT1s,
     receivedT2s |-> data.ReceivedT2s,
     receivedT3s |-> data.ReceivedT3s,
     repliedT1s |-> EmptyMap,
     repliedT2s |-> EmptyMap,
     receivedT1Alphas |-> data.ReceivedT1Alphas,
     decryptedT1Betas |-> data.DecryptedT1Betas]

\* Exchange.Unmarshal: the fields it sets from the decoded
\* serializableExchange.
Unmarshal(data) ==
    [contactID |-> data.ContactID,
     status |-> data.Status,
     session |-> data.Session,
     sentT1 |-> data.SentT1,
     sentT2Map |-> data.SentT2Map,
     receivedT1s |-> data.ReceivedT1s,
     receivedT2s |-> data.ReceivedT2s,
     receivedT3s |-> data.ReceivedT3s,
     repliedT1s |-> data.RepliedT1s,
     repliedT2s |-> data.RepliedT2s,
     receivedT1Alphas |-> data.ReceivedT1Alphas,
     decryptedT1Betas |-> data.DecryptedT1Betas]

\* ------------------------------------------------------- update channel
\* A ReunionUpdate; a field is {} when nil and {v} when it holds v.
ReunionUpdate(err, serialized, result) ==
    [Error |-> err, Serialized |-> serialized, Result |-> result]

\* The fields of update u that are set.
SetFields(u) == {f \in {"Error", "Serialized", "Result"} : u[f] # {}}

\* What the consumer takes update u for.
Kind(u) ==
    IF u.Error # {} THEN "error"
    ELSE IF u.Result # {} THEN "result"
    ELSE "serialized"

\* The value a set field holds.
The(S) == CHOOSE x \in S : TRUE

\* What Marshal returns: the snapshot and no error, or an error and no bytes.
MarshalOutcome(e, m) ==
    IF m = "ok"
    THEN [serialized |-> {Marshal(e)}, err |-> {}]
    ELSE [serialized |-> {}, err |-> {"marshal"}]

\* (mutant) The unknown status is reported in the Result field.
UnknownStateUpdateAsResult == ReunionUpdate({}, {}, {"unknown state error"})

\* The update Run sends when the status is unknown.
UnknownStateUpdate == ReunionUpdate({"unknown state error"}, {}, {})

\* (mutant) The snapshot is sent again as the result.
SnapshotUpdateEchoed(out) == ReunionUpdate(out.err, out.serialized, out.serialized)

\* The update sentUpdateOK sends with what Marshal returned.
SnapshotUpdate(out) == ReunionUpdate(out.err, out.serialized, {})

\* The update processT3Messages sends with the plaintext of a T3.
ResultUpdate(plaintext) == ReunionUpdate({}, {}, {plaintext})

\* The consumer takes update u of e.
Deliver(e, u) ==
    /\ snapshot' = IF u.Serialized # {}
                   THEN [snapshot EXCEPT ![e] = The(u.Serialized)]
                   ELSE snapshot
    /\ lastUpdate' = [lastUpdate EXCEPT ![e] =
                         [kind |-> Kind(u),
                          result |-> IF u.Result # {} THEN The(u.Result) ELSE "-"]]
    /\ lastFields' = [lastFields EXCEPT ![e] = SetFields(u)]
    /\ lateUpdate' = [lateUpdate EXCEPT ![e] = @ \/ nResults[e] > 0]
    /\ nResults' = [nResults EXCEPT ![e] = IF Kind(u) = "result" THEN @ + 1 ELSE @]
    /\ nErrors' = [nErrors EXCEPT ![e] = IF Kind(u) = "error" THEN @ + 1 ELSE @]

\* The consumer of e waits at its receive and nothing is buffered before u.
HandOver(e) == ~busy[e] /\ updateChan[e].buf = <<>>

\* The update is buffered; the consumer has not taken it.
Buffer(e, u) ==
    /\ updateChan' = [updateChan EXCEPT ![e].buf = Append(@, u)]
    /\ UNCHANGED <<busy, snapshot, lastUpdate, lastFields, lateUpdate, nResults, nErrors>>

\* (mutant) A send that gives up when it would block: the update is
\* dropped and the driver goes on.
EmitOrDrop(e, u) ==
    IF HandOver(e)
    THEN Deliver(e, u) /\ UNCHANGED <<updateChan, busy>>
    ELSE IF Len(updateChan[e].buf) < updateChan[e].cap
    THEN Buffer(e, u)
    ELSE UNCHANGED <<updateChan, busy, snapshot, lastUpdate, lastFields, lateUpdate,
                     nResults, nErrors>>

\* A send on updateChan: the update goes to the waiting consumer or into
\* the buffer, and the send blocks while neither can take it.
Emit(e, u) ==
    IF HandOver(e)
    THEN Deliver(e, u) /\ UNCHANGED <<updateChan, busy>>
    ELSE /\ Len(updateChan[e].buf) < updateChan[e].cap
         /\ Buffer(e, u)

\* ------------------------------------------------------------ commands
SendT1Cmd(t1) == [cmd |-> "SendT1", src |-> Hash(t1), dst |-> Hash(t1), payload |-> t1]

SendT2Cmd(src, dst, t2) == [cmd |-> "SendT2", src |-> src, dst |-> dst, payload |-> t2]

SendT3Cmd(src, dst, t3) == [cmd |-> "SendT3", src |-> src, dst |-> dst, payload |-> t3]

\* db.Query of a send command c, answered o: the command is on the board
\* and counted when it is acknowledged OK.
Query(e, c, o) ==
    /\ issued' = [issued EXCEPT ![e] = @ \cup {<<c.cmd, c.dst>>}]
    /\ IF o = "ok"
       THEN /\ CopiesIn(<<c.cmd, c.dst>>, acked[e]) < MaxAck
            /\ board' = board \cup {c}
            /\ acked' = [acked EXCEPT ![e] = @ (+) SetToBag({<<c.cmd, c.dst>>})]
       ELSE UNCHANGED <<board, acked>>

\* No query is made.
NoQuery == UNCHANGED <<board, issued, acked>>

\* ----------------------------------------------------------------- Run
\* Run's switch on e.status.
RunEnter(e) ==
    /\ pc[e] = "run"
    /\ IF status[e] = initialState
       THEN /\ Goto(e, "sendT1")
            /\ UNCHANGED obsvars
       ELSE IF status[e] = t1MessageSentState
       THEN /\ Goto(e, "fetch")
            /\ UNCHANGED obsvars
       ELSE /\ Return(e, "status")
            /\ Emit(e, UnknownStateUpdate)
            /\ UNCHANGED <<issued, acked>>
    /\ UNCHANGED <<exvars, todo, processed, shutdown, board>>

\* sendT1, and on success the status change of Run.
SendT1(e, outcomes) ==
    /\ pc[e] = "sendT1"
    /\ \E o \in outcomes :
        LET t1 == GenerateType1Message(e) IN
        /\ sentT1' = [sentT1 EXCEPT ![e] = t1]
        /\ Query(e, SendT1Cmd(t1), o)
        /\ IF o = "ok"
           THEN /\ status' = [status EXCEPT ![e] = t1MessageSentState]
                /\ Goto(e, "update1")
           ELSE /\ Return(e, "query")
                /\ UNCHANGED status
    /\ UNCHANGED <<sentT2Map, repliedT1s, repliedT2s, receivedT1s, receivedT2s,
                   receivedT3s, receivedT1Alphas, decryptedT1Betas>>
    /\ UNCHANGED <<todo, processed, shutdown, nResults, nErrors, lastUpdate, lastFields, lateUpdate, snapshot,
                   updateChan, busy>>

\* Where Run goes on after the snapshot taken at pc p, not being stopped.
AfterUpdate(p) ==
    CASE p = "update1" -> "fetch"
      [] p = "update2" -> "sendT3"
      [] OTHER -> "processT3"

\* The map the loop entered after the snapshot at pc p ranges over.
LoopKeys(e, p) ==
    CASE p = "update2" -> DOMAIN receivedT2s[e]
      [] p = "update3" -> DOMAIN receivedT3s[e]
      [] OTHER -> {}

\* sentUpdateOK followed by shouldStop.
SentUpdate(e, marshals) ==
    /\ pc[e] \in {"update1", "update2", "update3"}
    /\ \E m \in marshals :
        LET out == MarshalOutcome(e, m) IN
        /\ Emit(e, SnapshotUpdate(out))
        /\ IF out.err = {}
           THEN IF shutdown[e]
                THEN /\ Return(e, "shutdown")
                     /\ UNCHANGED todo
                ELSE /\ Goto(e, AfterUpdate(pc[e]))
                     /\ todo' = [todo EXCEPT ![e] = LoopKeys(e, pc[e])]
           ELSE /\ Return(e, "marshal")
                /\ UNCHANGED todo
    /\ processed' = [processed EXCEPT ![e] = FALSE]
    /\ UNCHANGED <<exvars, shutdown, board, issued, acked>>

\* The owner closes shutdownChan.
Shutdown(e) ==
    /\ ~shutdown[e]
    /\ pc[e] # "done"
    /\ shutdown' = [shutdown EXCEPT ![e] = TRUE]
    /\ UNCHANGED <<pc, halt, exvars, todo, processed, board, obsvars>>

\* ---------------------------------------------------------- fetchState
\* A message of a RequestedReunionState.
Message(src, t2, t3) == [SrcT1Hash |-> src, T2Payload |-> t2, T3Payload |-> t3]

\* processState, first loop: the T1s not yet known are stored.
MergeT1s(t1s, T1Map) ==
    [h \in (DOMAIN t1s) \cup (DOMAIN T1Map) |->
        IF Has(t1s, h) THEN t1s[h] ELSE T1Map[h]]

\* (mutant) The message is stored whether or not the key is taken.
StoreLast(m, k, v) == Put(m, k, v)

\* processState, one message stored under its source unless the key is taken.
StoreNew(m, k, v) == IF Has(m, k) THEN m ELSE Put(m, k, v)

\* processState, second loop: the messages in order, until an invalid one.
RECURSIVE MergeMessages(_, _, _)
MergeMessages(t2s, t3s, msgs) ==
    IF msgs = << >>
    THEN [t2s |-> t2s, t3s |-> t3s, err |-> FALSE]
    ELSE LET message == Head(msgs) IN
         IF message.T2Payload # Nil
         THEN MergeMessages(StoreNew(t2s, message.SrcT1Hash, message.T2Payload),
                            t3s, Tail(msgs))
         ELSE IF message.T3Payload # Nil
         THEN MergeMessages(t2s,
                            StoreNew(t3s, message.SrcT1Hash, message.T3Payload),
                            Tail(msgs))
         ELSE [t2s |-> t2s, t3s |-> t3s, err |-> TRUE]

processState(e, state) ==
    LET merged == MergeMessages(receivedT2s[e], receivedT3s[e], state.Messages) IN
    [t1s |-> MergeT1s(receivedT1s[e], state.T1Map),
     t2s |-> merged.t2s,
     t3s |-> merged.t3s,
     err |-> merged.err]

\* fetchState as Run calls it: the FetchState query and, when the response
\* is an untruncated OK state, processState; any error ends Run.
FetchState(e, responses) ==
    /\ pc[e] = "fetch"
    /\ \E r \in responses :
        IF r.kind = "state"
        THEN LET new == processState(e, r) IN
             /\ receivedT1s' = [receivedT1s EXCEPT ![e] = new.t1s]
             /\ receivedT2s' = [receivedT2s EXCEPT ![e] = new.t2s]
             /\ receivedT3s' = [receivedT3s EXCEPT ![e] = new.t3s]
             /\ IF new.err
                THEN /\ Return(e, "state")
                     /\ UNCHANGED todo
                ELSE /\ Goto(e, "sendT2")
                     /\ todo' = [todo EXCEPT ![e] = DOMAIN new.t1s]
        ELSE /\ Return(e, IF r.kind = "error" THEN "query" ELSE "truncated")
             /\ UNCHANGED <<receivedT1s, receivedT2s, receivedT3s, todo>>
    /\ UNCHANGED <<status, sentT1, sentT2Map, repliedT1s, repliedT2s,
                   receivedT1Alphas, decryptedT1Betas>>
    /\ issued' = [issued EXCEPT ![e] = @ \cup {<<"FetchState", Hash(sentT1[e])>>}]
    /\ UNCHANGED <<processed, shutdown, board, acked, nResults, nErrors, lastUpdate, lastFields, lateUpdate, snapshot,
                   updateChan, busy>>

\* ------------------------------------------------------ sendT2Messages
\* (mutant) The own T1 is not told from the others.
NeedsT2AnyT1(e, t1Hash) == ~Has(repliedT1s[e], t1Hash)

\* The T1s the loop does not `continue` over: not the own one, not replied.
NeedsT2(e, t1Hash) ==
    /\ t1Hash # Hash(sentT1[e])
    /\ ~Has(repliedT1s[e], t1Hash)

\* (mutant) The acknowledged reply is not recorded.
MarkRepliedT1Forgotten(e, t1Hash, t1) == repliedT1s[e]

\* (mutant) The own T1 is recorded in place of the answered one.
MarkRepliedT1Own(e, t1Hash, t1) == Put(repliedT1s[e], t1Hash, sentT1[e])

\* What sendT2Messages records once the SendT2 for t1Hash is acknowledged.
MarkRepliedT1(e, t1Hash, t1) == Put(repliedT1s[e], t1Hash, t1)

\* (mutant) The alpha key is used for the T2 and not kept.
StoreAlphaForgotten(e, t1Hash, alphaPubKey) == receivedT1Alphas[e]

\* What sendT2Messages records of a decoded T1 before it sends the T2.
StoreAlpha(e, t1Hash, alphaPubKey) == Put(receivedT1Alphas[e], t1Hash, alphaPubKey)

\* One pass of the range loop body on a T1 that is not skipped, or the end
\* of the loop.  A `return false` leaves the loop at once.
SendT2Messages(e, outcomes) ==
    /\ pc[e] = "sendT2"
    /\ LET open == {h \in todo[e] : NeedsT2(e, h)} IN
       IF open = {}
       THEN /\ Goto(e, "update2")
            /\ todo' = [todo EXCEPT ![e] = {}]
            /\ UNCHANGED <<receivedT1Alphas, sentT2Map, repliedT1s>>
            /\ NoQuery
       ELSE \E t1Hash \in open, o \in outcomes :
            LET t1 == receivedT1s[e][t1Hash]
                t2 == ProcessType1MessageAlpha(e, T1Alpha(t1))
                alphaPubKey == AlphaPubKey(e, T1Alpha(t1))
            IN
            IF ~DecodeT1MessageOK(t1)
            THEN /\ Goto(e, "update2")
                 /\ todo' = [todo EXCEPT ![e] = {}]
                 /\ UNCHANGED <<receivedT1Alphas, sentT2Map, repliedT1s>>
                 /\ NoQuery
            ELSE /\ receivedT1Alphas' =
                        [receivedT1Alphas EXCEPT
                            ![e] = StoreAlpha(e, t1Hash, alphaPubKey)]
                 /\ sentT2Map' = [sentT2Map EXCEPT ![e] = Put(@, Hash(t2), t2)]
                 /\ Query(e, SendT2Cmd(Hash(sentT1[e]), t1Hash, t2), o)
                 /\ IF o = "ok"
                    THEN /\ repliedT1s' =
                                [repliedT1s EXCEPT ![e] = MarkRepliedT1(e, t1Hash, t1)]
                         /\ todo' = [todo EXCEPT ![e] = @ \ {t1Hash}]
                         /\ UNCHANGED <<pc, halt>>
                    ELSE /\ Goto(e, "update2")
                         /\ todo' = [todo EXCEPT ![e] = {}]
                         /\ UNCHANGED repliedT1s
    /\ UNCHANGED <<status, sentT1, repliedT2s, receivedT1s, receivedT2s,
                   receivedT3s, decryptedT1Betas>>
    /\ UNCHANGED <<processed, shutdown, nResults, nErrors, lastUpdate, lastFields, lateUpdate, snapshot,
                   updateChan, busy>>

\* ------------------------------------------------------ sendT3Messages
\* Whether the T2 stored for srcT1Hash is already answered.
RepliedT2(e, srcT1Hash) == Has(repliedT2s[e], Hash(receivedT2s[e][srcT1Hash]))

\* (mutant) The beta is taken as opened whatever the candidate key.
BetaOpensAlways(e, srcT1Hash) == TRUE

\* The candidate key of the T2 stored for srcT1Hash opens its T1's beta.
BetaOpens(e, srcT1Hash) ==
    DecryptT1BetaOK(GetCandidateKey(e, receivedT2s[e][srcT1Hash],
                                    receivedT1Alphas[e][srcT1Hash]),
                    T1Beta(receivedT1s[e][srcT1Hash]))

\* (mutant) A beta that does not open is not skipped.
ContinuesT3IgnoringBeta(e, srcT1Hash) ==
    /\ Has(receivedT1s[e], srcT1Hash)
    /\ RepliedT2(e, srcT1Hash)

\* The loop body ends in `continue` without any effect: the T2 is already
\* answered, or its candidate key does not open the beta of the source's T1.
ContinuesT3(e, srcT1Hash) ==
    /\ Has(receivedT1s[e], srcT1Hash)
    /\ \/ RepliedT2(e, srcT1Hash)
       \/ /\ Has(receivedT1Alphas[e], srcT1Hash)
          /\ DecodeT1MessageOK(receivedT1s[e][srcT1Hash])
          /\ ~BetaOpens(e, srcT1Hash)

\* The loop body ends in `return false` before any query: the source's T1
\* or alpha is missing, or the T1 does not decode.
AbortsT3(e, srcT1Hash) ==
    \/ ~Has(receivedT1s[e], srcT1Hash)
    \/ /\ ~RepliedT2(e, srcT1Hash)
       /\ \/ ~Has(receivedT1Alphas[e], srcT1Hash)
          \/ ~DecodeT1MessageOK(receivedT1s[e][srcT1Hash])

\* (mutant) The map is made anew for each answered T2.
MarkRepliedT2Alone(e, srcT1Hash, t2) == Put(EmptyMap, Hash(t2), t2)

\* (mutant) The answered T2 is stored under its source's T1 hash.
MarkRepliedT2BySource(e, srcT1Hash, t2) == Put(repliedT2s[e], srcT1Hash, t2)

\* (mutant) The answered T2 is not recorded.
MarkRepliedT2Forgotten(e, srcT1Hash, t2) == repliedT2s[e]

\* What sendT3Messages records once the SendT3 to srcT1Hash is acknowledged.
MarkRepliedT2(e, srcT1Hash, t2) == Put(repliedT2s[e], Hash(t2), t2)

MarkDecryptedBeta(e, srcT1Hash, beta) == Put(decryptedT1Betas[e], srcT1Hash, beta)

\* (mutant) The beta is recorded before the SendT3 query is answered.
BetaBeforeAnswer(e, srcT1Hash, beta, o) == MarkDecryptedBeta(e, srcT1Hash, beta)

\* decryptedT1Betas after the SendT3 query for srcT1Hash was answered o: a
\* failed query returns before the beta is recorded.
BetaAfterAnswer(e, srcT1Hash, beta, o) ==
    IF o = "ok" THEN MarkDecryptedBeta(e, srcT1Hash, beta) ELSE decryptedT1Betas[e]

\* One pass of the range loop body on a T2 that does not `continue`, or the
\* end of the loop.
SendT3Messages(e, outcomes) ==
    /\ pc[e] = "sendT3"
    /\ LET open == {h \in todo[e] : ~ContinuesT3(e, h)} IN
       IF open = {}
       THEN /\ Goto(e, "update3")
            /\ todo' = [todo EXCEPT ![e] = {}]
            /\ UNCHANGED <<decryptedT1Betas, repliedT2s>>
            /\ NoQuery
       ELSE \E srcT1Hash \in open, o \in outcomes :
            IF AbortsT3(e, srcT1Hash)
            THEN /\ Goto(e, "update3")
                 /\ todo' = [todo EXCEPT ![e] = {}]
                 /\ UNCHANGED <<decryptedT1Betas, repliedT2s>>
                 /\ NoQuery
            ELSE LET t1 == receivedT1s[e][srcT1Hash]
                     t2 == receivedT2s[e][srcT1Hash]
                     candidateKey ==
                         GetCandidateKey(e, t2, receivedT1Alphas[e][srcT1Hash])
                     beta == DecryptT1Beta(candidateKey, T1Beta(t1))
                     t3 == ComposeType3Message(e, beta)
                 IN
                 /\ Query(e, SendT3Cmd(Hash(sentT1[e]), srcT1Hash, t3), o)
                 /\ decryptedT1Betas' =
                        [decryptedT1Betas EXCEPT
                            ![e] = BetaAfterAnswer(e, srcT1Hash, beta, o)]
                 /\ IF o = "ok"
                    THEN /\ repliedT2s' =
                                [repliedT2s EXCEPT ![e] = MarkRepliedT2(e, srcT1Hash, t2)]
                         /\ todo' = [todo EXCEPT ![e] = @ \ {srcT1Hash}]
                         /\ UNCHANGED <<pc, halt>>
                    ELSE /\ Goto(e, "update3")
                         /\ todo' = [todo EXCEPT ![e] = {}]
                         /\ UNCHANGED repliedT2s
    /\ UNCHANGED <<status, sentT1, sentT2Map, repliedT1s, receivedT1s, receivedT2s,
                   receivedT3s, receivedT1Alphas>>
    /\ UNCHANGED <<processed, shutdown, nResults, nErrors, lastUpdate, lastFields, lateUpdate, snapshot,
                   updateChan, busy>>

\* --------------------------------------------------- processT3Messages
\* The T3s the loop does not `continue` over: those of a source whose beta
\* was decrypted.
NeedsProcessing(e, srcT1Hash) == Has(decryptedT1Betas[e], srcT1Hash)

\* The loop body reaches ProcessType3Message and it succeeds.
T3Succeeds(e, srcT1Hash) ==
    /\ Has(receivedT1s[e], srcT1Hash)
    /\ DecodeT1MessageOK(receivedT1s[e][srcT1Hash])
    /\ ProcessType3MessageOK(e, receivedT3s[e][srcT1Hash],
                             T1Gamma(receivedT1s[e][srcT1Hash]),
                             decryptedT1Betas[e][srcT1Hash])

\* (mutant) Run ignores what processT3Messages returns and loops on.
LeaveProcessT3NoBreak(e, r) == Goto(e, "fetch")

\* Run's `break` when processT3Messages returns true, the next turn of the
\* loop when it returns false.
LeaveProcessT3(e, r) == IF r THEN Return(e, "completed") ELSE Goto(e, "fetch")

\* One pass of the range loop body on a T3 that is not skipped, or the end
\* of the loop, and Run's `break` on a true return.
ProcessT3Messages(e) ==
    /\ pc[e] = "processT3"
    /\ LET open == {h \in todo[e] : NeedsProcessing(e, h)} IN
       IF open = {}
       THEN /\ LeaveProcessT3(e, processed[e])
            /\ todo' = [todo EXCEPT ![e] = {}]
            /\ UNCHANGED <<processed, nResults, nErrors, lastUpdate, lastFields, lateUpdate, snapshot,
                   updateChan, busy>>
       ELSE \E srcT1Hash \in open :
            IF T3Succeeds(e, srcT1Hash)
            THEN LET plaintext ==
                         ProcessType3Message(e, receivedT3s[e][srcT1Hash],
                                             T1Gamma(receivedT1s[e][srcT1Hash]),
                                             decryptedT1Betas[e][srcT1Hash])
                 IN
                 /\ nResults[e] < MaxResults
                 /\ Emit(e, ResultUpdate(plaintext))
                 /\ processed' = [processed EXCEPT ![e] = TRUE]
                 /\ todo' = [todo EXCEPT ![e] = @ \ {srcT1Hash}]
                 /\ UNCHANGED <<pc, halt>>
            ELSE /\ LeaveProcessT3(e, FALSE)
                 /\ todo' = [todo EXCEPT ![e] = {}]
                 /\ UNCHANGED <<processed, nResults, nErrors, lastUpdate, lastFields, lateUpdate, snapshot,
                   updateChan, busy>>
    /\ UNCHANGED <<exvars, shutdown, board, issued, acked>>

\* ------------------------------------------------------------ database
\* The T1 map of a response: any T1s, each under its own hash.
T1MapOf(T1s) == [h \in {Hash(t1) : t1 \in T1s} |-> h.sha]

\* The T1 hash of session s.
T1Hash(s) == Hash(GenerateType1Message(s))

\* The T2 and the T3 an honest peer p sharing e's passphrase builds for e.
PeerT2(p, e) == ProcessType1MessageAlpha(p, e)

PeerT3(p, e) == ComposeType3Message(p, [beta |-> e])

\* The T1s an untrusted database hands to A: those of A's peers B and D,
\* which share its passphrase, and A's own.
AnyT1s == {GenerateType1Message(s) : s \in {"A", "B", "D"}}

\* The messages an untrusted database hands to A: each peer's T2 and T3 for
\* A under that peer's T1 hash, B's T2 and T3 under A's own T1 hash and
\* under D's, a message with both payloads, and one with none.
AnyMessages ==
    {Message(T1Hash(p), PeerT2(p, "A"), Nil) : p \in {"B", "D"}}
      \cup {Message(T1Hash(p), Nil, PeerT3(p, "A")) : p \in {"B", "D"}}
      \cup {Message(T1Hash(s), PeerT2("B", "A"), Nil) : s \in {"A", "D"}}
      \cup {Message(T1Hash(s), Nil, PeerT3("B", "A")) : s \in {"A", "D"}}
      \cup {Message(T1Hash("B"), PeerT2("B", "A"), PeerT3("B", "A")),
            Message(T1Hash("B"), Nil, Nil)}

\* The lists of at most MaxMsgs messages.
MessageLists(messages) == UNION {[1..n -> messages] : n \in 0..MaxMsgs}

\* processState looks at message m: its slot is free, or it is invalid.
Looked(e, m) ==
    IF m.T2Payload # Nil THEN ~Has(receivedT2s[e], m.SrcT1Hash)
    ELSE IF m.T3Payload # Nil THEN ~Has(receivedT3s[e], m.SrcT1Hash)
    ELSE TRUE

\* Every answer to e's FetchState query built from the given T1s and
\* messages: an error or a non-OK code, a truncated state, or a state.
\* processState ignores a T1 it has stored (same hash, same bytes) and a
\* message whose slot was taken before the response, so a state is given
\* by the T1s it adds and the messages processState looks at.
AnyResponses(e, T1s, messages) ==
    LET known == {receivedT1s[e][h] : h \in DOMAIN receivedT1s[e]} IN
    {[kind |-> "error"], [kind |-> "truncated"]}
      \cup {[kind |-> "state", T1Map |-> T1MapOf(new), Messages |-> msgs] :
               new \in SUBSET (T1s \ known),
               msgs \in MessageLists({m \in messages : Looked(e, m)})}

\* A set as a list, in some order.
RECURSIVE ListOf(_)
ListOf(S) ==
    IF S = {} THEN << >>
    ELSE LET x == CHOOSE y \in S : TRUE IN <<x>> \o ListOf(S \ {x})

\* The state the board holds for the requester of T1 hash t1Hash: every T1
\* posted, and every T2 and T3 sent to t1Hash.
BoardState(t1Hash) ==
    [kind |-> "state",
     T1Map |-> T1MapOf({c.payload : c \in {b \in board : b.cmd = "SendT1"}}),
     Messages |->
        ListOf({Message(c.src, c.payload, Nil) :
                    c \in {b \in board : b.cmd = "SendT2" /\ b.dst = t1Hash}}
               \cup {Message(c.src, Nil, c.payload) :
                    c \in {b \in board : b.cmd = "SendT3" /\ b.dst = t1Hash}})]

\* Every answer to a SendT1, SendT2 or SendT3 query: OK, or an error or a
\* non-OK code.
AnyOutcomes == {"ok", "failed"}

\* Marshal returns the snapshot or an error.
AnyMarshals == {"ok", "failed"}

\* ------------------------------------------------------ specifications
\* A alone against an untrusted database, with an owner who may stop it.
Next ==
    \E e \in {"A"} :
        \/ RunEnter(e)
        \/ SendT1(e, AnyOutcomes)
        \/ SentUpdate(e, AnyMarshals)
        \/ Shutdown(e)
        \/ FetchState(e, AnyResponses(e, AnyT1s, AnyMessages))
        \/ SendT2Messages(e, AnyOutcomes)
        \/ SendT3Messages(e, AnyOutcomes)
        \/ ProcessT3Messages(e)

Spec == Init /\ [][Next]_vars

\* Run of e against a cooperating database: every query is answered OK,
\* FetchState returns the board's state, Marshal succeeds, nobody stops e.
RunCooperating(e) ==
    \/ RunEnter(e)
    \/ SendT1(e, {"ok"})
    \/ SentUpdate(e, {"ok"})
    \/ FetchState(e, {BoardState(Hash(sentT1[e]))})
    \/ SendT2Messages(e, {"ok"})
    \/ SendT3Messages(e, {"ok"})
    \/ ProcessT3Messages(e)

\* A and B, same passphrase, one cooperating board, both drivers scheduled.
InitPair == NewExchange({"A", "B"}, MakeChan(0))

NextPair == RunCooperating("A") \/ RunCooperating("B")

SpecPair ==
    /\ InitPair
    /\ [][NextPair]_vars
    /\ WF_vars(RunCooperating("A"))
    /\ WF_vars(RunCooperating("B"))

\* Run of e against a board that keeps what it acknowledged but whose
\* transport may fail.
RunUnreliable(e) ==
    \/ RunEnter(e)
    \/ SendT1(e, AnyOutcomes)
    \/ SentUpdate(e, {"ok"})
    \/ Shutdown(e)
    \/ FetchState(e, {BoardState(Hash(sentT1[e])), [kind |-> "error"]})
    \/ SendT2Messages(e, AnyOutcomes)
    \/ SendT3Messages(e, AnyOutcomes)
    \/ ProcessT3Messages(e)

\* A and C, different passphrases, same epoch, one board.
InitIsolated == NewExchange({"A", "C"}, MakeChan(0))

NextIsolated == RunUnreliable("A") \/ RunUnreliable("C")

SpecIsolated == InitIsolated /\ [][NextIsolated]_vars

\* What an untrusted database hands to A besides honest B's T1, T2 and T3:
\* a T1 that does not decode, D's T1 and T2 with a T3 that is not D's, and
\* a T2 under the hash of the T1 that does not decode.
MalformedT1s == {GenerateType1Message("B"), GenerateType1Message("D"), JunkT1}

MalformedMessages ==
    {Message(T1Hash("B"), PeerT2("B", "A"), Nil),
     Message(T1Hash("B"), Nil, PeerT3("B", "A")),
     Message(T1Hash("D"), PeerT2("D", "A"), Nil),
     Message(T1Hash("D"), Nil, PeerT3("B", "A")),
     Message(Hash(JunkT1), PeerT2("B", "A"), Nil)}

\* A alone, every send acknowledged OK and Marshal succeeding, against a
\* database whose states hold malformed peer messages.
InitMalformed == NewExchange({"A"}, MakeChan(0))

NextMalformed ==
    \/ RunEnter("A")
    \/ SendT1("A", {"ok"})
    \/ SentUpdate("A", {"ok"})
    \/ FetchState("A", AnyResponses("A", MalformedT1s, MalformedMessages))
    \/ SendT2Messages("A", {"ok"})
    \/ SendT3Messages("A", {"ok"})
    \/ ProcessT3Messages("A")

SpecMalformed == InitMalformed /\ [][NextMalformed]_vars

\* The T1 maps of a database that hands out, under the T1 hashes of B and
\* of D, any of their T1s or junk.
RefetchT1Maps ==
    UNION {[H -> {GenerateType1Message("B"), GenerateType1Message("D"), JunkT1}] :
               H \in SUBSET {T1Hash("B"), T1Hash("D")}}

\* Its messages: under B's T1 hash the T2 and the T3 of either peer, and
\* under D's a message with both payloads.
RefetchMessages ==
    {Message(T1Hash("B"), PeerT2(p, "A"), Nil) : p \in {"B", "D"}}
      \cup {Message(T1Hash("B"), Nil, PeerT3(p, "A")) : p \in {"B", "D"}}
      \cup {Message(T1Hash("D"), PeerT2("D", "A"), PeerT3("D", "A"))}

\* Every state it answers a FetchState query with, whatever e has stored.
RefetchResponses ==
    {[kind |-> "state", T1Map |-> T1Map, Messages |-> msgs] :
         T1Map \in RefetchT1Maps, msgs \in MessageLists(RefetchMessages)}

\* A alone, every send acknowledged OK and Marshal succeeding, against a
\* database that answers each FetchState with other values for the keys it
\* has handed out before.
InitRefetch == NewExchange({"A"}, MakeChan(0))

NextRefetch ==
    \/ RunEnter("A")
    \/ SendT1("A", {"ok"})
    \/ SentUpdate("A", {"ok"})
    \/ FetchState("A", RefetchResponses)
    \/ SendT2Messages("A", {"ok"})
    \/ SendT3Messages("A", {"ok"})
    \/ ProcessT3Messages("A")

SpecRefetch == InitRefetch /\ [][NextRefetch]_vars

\* The consumer of e's updates receives the oldest buffered update.
Receive(e) ==
    /\ ~busy[e]
    /\ updateChan[e].buf # <<>>
    /\ Deliver(e, Head(updateChan[e].buf))
    /\ updateChan' = [updateChan EXCEPT ![e].buf = Tail(@)]
    /\ UNCHANGED <<pc, exvars, todo, processed, shutdown, halt, board, issued, acked, busy>>

\* The consumer of e's updates leaves its receive or comes back to it.
Consumer(e) ==
    /\ busy' = [busy EXCEPT ![e] = ~@]
    /\ UNCHANGED <<pc, exvars, todo, processed, shutdown, halt, board, issued, acked,
                   nResults, nErrors, lastUpdate, lastFields, lateUpdate, snapshot,
                   updateChan>>

\* A and B on a cooperating board, each on an update channel of a capacity
\* its caller chose and with a consumer that is not always at its receive.
InitChannel == \E cap \in 0..MaxCap : NewExchange({"A", "B"}, MakeChan(cap))

NextChannel ==
    \/ RunCooperating("A")
    \/ RunCooperating("B")
    \/ Receive("A")
    \/ Receive("B")
    \/ Consumer("A")
    \/ Consumer("B")

SpecChannel == InitChannel /\ [][NextChannel]_vars

\* (mutant) The query is made without the shutdownChan.
CancellableIgnored(e, answers, cancelled) == answers

\* What db.Query, which is handed e.shutdownChan, may answer: with the
\* channel closed the database client aborts and returns an error.
Cancellable(e, answers, cancelled) == IF shutdown[e] THEN cancelled ELSE answers

\* Run of e against a board whose transport may fail, every query being
\* handed the shutdownChan.
RunCancellable(e) ==
    \/ RunEnter(e)
    \/ SendT1(e, Cancellable(e, AnyOutcomes, {"failed"}))
    \/ SentUpdate(e, {"ok"})
    \/ FetchState(e, Cancellable(e, {BoardState(Hash(sentT1[e]))}, {[kind |-> "error"]}))
    \/ SendT2Messages(e, Cancellable(e, AnyOutcomes, {"failed"}))
    \/ SendT3Messages(e, Cancellable(e, AnyOutcomes, {"failed"}))
    \/ ProcessT3Messages(e)

\* A and B on one board, each with an owner who may close its shutdownChan
\* at any time and a consumer that drains the updates; both drivers are
\* scheduled.
InitCancel == NewExchange({"A", "B"}, MakeChan(0))

NextCancel ==
    \/ RunCancellable("A")
    \/ RunCancellable("B")
    \/ Shutdown("A")
    \/ Shutdown("B")

SpecCancel ==
    /\ InitCancel
    /\ [][NextCancel]_vars
    /\ WF_vars(RunCancellable("A"))
    /\ WF_vars(RunCancellable("B"))

\* NewExchangeFromSnapshot on the serialized data, Exchange.Unmarshal copying
\* the fields back, in place of the stopped driver of e; Run of the new
\* Exchange is not yet entered, its shutdownChan is new.
NewExchangeFromSnapshot(e, data) ==
    /\ LET ex == Unmarshal(data) IN
       /\ ex.contactID = ContactID(e)
       /\ ex.session = Session(e)
       /\ status' = [status EXCEPT ![e] = ex.status]
       /\ sentT1' = [sentT1 EXCEPT ![e] = ex.sentT1]
       /\ sentT2Map' = [sentT2Map EXCEPT ![e] = ex.sentT2Map]
       /\ receivedT1s' = [receivedT1s EXCEPT ![e] = ex.receivedT1s]
       /\ receivedT2s' = [receivedT2s EXCEPT ![e] = ex.receivedT2s]
       /\ receivedT3s' = [receivedT3s EXCEPT ![e] = ex.receivedT3s]
       /\ repliedT1s' = [repliedT1s EXCEPT ![e] = ex.repliedT1s]
       /\ repliedT2s' = [repliedT2s EXCEPT ![e] = ex.repliedT2s]
       /\ receivedT1Alphas' = [receivedT1Alphas EXCEPT ![e] = ex.receivedT1Alphas]
       /\ decryptedT1Betas' = [decryptedT1Betas EXCEPT ![e] = ex.decryptedT1Betas]
    /\ pc' = [pc EXCEPT ![e] = "run"]
    /\ halt' = [halt EXCEPT ![e] = ""]
    /\ todo' = [todo EXCEPT ![e] = {}]
    /\ processed' = [processed EXCEPT ![e] = FALSE]
    /\ shutdown' = [shutdown EXCEPT ![e] = FALSE]
    /\ nErrors' = [nErrors EXCEPT ![e] = 0]
    /\ UNCHANGED <<board, issued, acked, nResults, lastUpdate, lastFields, lateUpdate, snapshot,
                   updateChan, busy>>

\* The owner rebuilds e from the last snapshot it emitted.
Restart(e) ==
    /\ snapshot[e] # Nil
    /\ NewExchangeFromSnapshot(e, snapshot[e])

\* A and B on one cooperating board, A's driver being stopped at any point
\* and A rebuilt from its last snapshot.
InitRestart == NewExchange({"A", "B"}, MakeChan(0))

NextRestart == RunCooperating("A") \/ RunCooperating("B") \/ Restart("A")

SpecRestart == InitRestart /\ [][NextRestart]_vars

\* The statuses stored data may hold: the two Run knows, and others.
MaxStatus == 2

StoredStatuses == 0..MaxStatus

\* The owner rebuilds e from stored data: a snapshot e emitted, with any
\* status.
RestoreStored(e) ==
    /\ snapshot[e] # Nil
    /\ \E s \in StoredStatuses :
          NewExchangeFromSnapshot(e, [snapshot[e] EXCEPT !.Status = s])

\* A and B on one cooperating board, A's driver being stopped at any point
\* and A rebuilt from stored data.
InitStored == NewExchange({"A", "B"}, MakeChan(0))

NextStored == RunCooperating("A") \/ RunCooperating("B") \/ RestoreStored("A")

SpecStored == InitStored /\ [][NextStored]_vars

\* The T2 that C builds for the alpha of e's T1.
NoiseT2(e) == ProcessType1MessageAlpha("C", T1Alpha(GenerateType1Message(e)))

\* What C, whose passphrase is another one, has the board acknowledge: its
\* T1, and a T2 for A and for B.
NoiseCommands ==
    {SendT1Cmd(GenerateType1Message("C"))}
      \cup {SendT2Cmd(T1Hash("C"), T1Hash(e), NoiseT2(e)) : e \in {"A", "B"}}

\* C posts one of its commands, its T1 before any T2.
ThirdParty ==
    /\ \E c \in NoiseCommands \ board :
          /\ c.cmd = "SendT2" => SendT1Cmd(GenerateType1Message("C")) \in board
          /\ board' = board \cup {c}
    /\ UNCHANGED <<pc, exvars, todo, processed, shutdown, halt, obsvars>>

\* A and B share a passphrase and run on one cooperating board on which C
\* posts too; the drivers of A and B are scheduled.
InitNoise == NewExchange({"A", "B"}, MakeChan(0))

NextNoise == RunCooperating("A") \/ RunCooperating("B") \/ ThirdParty

SpecNoise ==
    /\ InitNoise
    /\ [][NextNoise]_vars
    /\ WF_vars(RunCooperating("A"))
    /\ WF_vars(RunCooperating("B"))

\* -------------------------------------------------------------- claims
\* The peer of an Exchange of the pair.
Other(e) == IF e = "A" THEN "B" ELSE "A"

\* e's Run has returned and the last update it emitted carries p as result.
EndedWithResult(e, p) ==
    /\ pc[e] = "done"
    /\ halt[e] = "completed"
    /\ lastUpdate[e] = [kind |-> "result", result |-> p]

\* C1: two Exchanges with the same passphrase, shared random and epoch and
\* distinct payloads, run against one cooperating board with their updates
\* taken and nobody stopping them, each eventually emit the other's payload
\* as a result, and that update is the last one of its Run.
C1_PairCompletes ==
    <>[](\A e \in {"A", "B"} :
            /\ EndedWithResult(e, Payload(Other(e)))
            /\ nResults[e] = 1
            /\ ~lateUpdate[e])

\* Both Runs have returned, A with B's payload and B with A's.
C1_Witness ==
    /\ Passphrase("A") = Passphrase("B")
    /\ Payload("A") # Payload("B")
    /\ EndedWithResult("A", "BBB")
    /\ EndedWithResult("B", "AAA")

C3_AtMostOnce ==
    \A e \in Exchanges :
        \A q \in BagToSet(acked[e]) :
            q[1] \in {"SendT2", "SendT3"} => CopiesIn(q, acked[e]) <= 1

\* A is in a later turn of the loop, past sendT2Messages again, with a
\* SendT2 and a SendT3 to B acknowledged.
C3_Witness ==
    /\ pc["A"] = "update2"
    /\ BagIn(<<"SendT2", T1Hash("B")>>, acked["A"])
    /\ BagIn(<<"SendT3", T1Hash("B")>>, acked["A"])
    /\ Has(receivedT1s["A"], T1Hash("D"))

\* C4: the hash of the own T1 is never a key of repliedT1s, also when the
\* database returns the own T1 in the T1 map.
C4_NoSelfReply ==
    \A e \in Exchanges : ~Has(repliedT1s[e], Hash(sentT1[e]))

\* A has its own T1 among the received ones and is past sendT2Messages,
\* having answered B.
C4_Witness ==
    /\ Has(receivedT1s["A"], Hash(sentT1["A"]))
    /\ Has(repliedT1s["A"], T1Hash("B"))
    /\ pc["A"] = "update2"

\* C5: the hash of the own T1 is never a source (key) of receivedT2s nor of
\* receivedT3s, whatever the FetchState responses hold.
C5_NoSelfSource ==
    \A e \in Exchanges :
        /\ ~Has(receivedT2s[e], Hash(sentT1[e]))
        /\ ~Has(receivedT3s[e], Hash(sentT1[e]))

\* Every entry of map m is an entry of map n.
SubMap(m, n) == \A k \in DOMAIN m : Has(n, k) /\ n[k] = m[k]

\* C6: in every step repliedT1s and repliedT2s keep each key they hold, with
\* its value.
C6_ReplyMonotonic ==
    [][\A e \in Exchanges :
          /\ SubMap(repliedT1s[e], repliedT1s'[e])
          /\ SubMap(repliedT2s[e], repliedT2s'[e])]_vars

\* Both maps have grown twice.
C6_Witness ==
    /\ Cardinality(DOMAIN repliedT1s["A"]) = 2
    /\ Cardinality(DOMAIN repliedT2s["A"]) = 2

\* C7: repliedT1s is a sub-map of receivedT1s.
C7_RepliedT1sReceived ==
    \A e \in Exchanges : SubMap(repliedT1s[e], receivedT1s[e])

\* A has answered the T1s of B and of D and holds its own T1 too.
C7_Witness ==
    /\ DOMAIN repliedT1s["A"] = {T1Hash("B"), T1Hash("D")}
    /\ DOMAIN receivedT1s["A"] = {T1Hash("A"), T1Hash("B"), T1Hash("D")}

\* C8: every key of repliedT2s is the hash of a value of receivedT2s.
C8_RepliedT2sReceived ==
    \A e \in Exchanges :
        \A k \in DOMAIN repliedT2s[e] :
            \E h \in DOMAIN receivedT2s[e] : Hash(receivedT2s[e][h]) = k

\* A has answered the T2s of B and of D.
C8_Witness ==
    DOMAIN repliedT2s["A"] = {Hash(PeerT2("B", "A")), Hash(PeerT2("D", "A"))}

\* C9: a key h of decryptedT1Betas is a key of receivedT2s, and repliedT2s
\* holds the hash of receivedT2s[h].
C9_BetaOnlyIfReplied ==
    \A e \in Exchanges :
        \A h \in DOMAIN decryptedT1Betas[e] :
            /\ Has(receivedT2s[e], h)
            /\ Has(repliedT2s[e], Hash(receivedT2s[e][h]))

\* A holds the betas of B and of D.
C9_Witness ==
    DOMAIN decryptedT1Betas["A"] = {T1Hash("B"), T1Hash("D")}

\* C10: a Run emits at most one result update, and no update after it.
C10_SingleTerminalResult ==
    \A e \in Exchanges : nResults[e] <= 1 /\ ~lateUpdate[e]

\* C11: when Run has returned on a fatal error (a failed query, an invalid
\* message in the state, a truncated state, a Marshal failure), the last
\* update it emitted carries an error and it is the one error update of
\* the Run.
C11_FatalErrorReported ==
    \A e \in Exchanges :
        (pc[e] = "done" /\ halt[e] \in {"query", "state", "truncated", "marshal"})
            => lastUpdate[e].kind = "error" /\ nErrors[e] = 1

\* C12: when Run has returned because shouldStop saw shutdownChan closed,
\* the last update it emitted is the shutdown error, not a snapshot nor a
\* result.
C12_ShutdownReported ==
    \A e \in Exchanges :
        (pc[e] = "done" /\ halt[e] = "shutdown")
            => lastUpdate[e].kind = "error" /\ nErrors[e] = 1

\* The SendT1 query of e.
SendT1Of(e) == <<"SendT1", T1Hash(e)>>

\* C13: a Run entered in the initial status makes its SendT1 query before
\* any other; a FetchState query is made only with the SendT1 acknowledged,
\* the status t1MessageSentState and a snapshot of that status emitted; and
\* when the SendT1 fails Run returns having emitted an error update and
\* made no other query.
C13_SendT1First ==
    \A e \in Exchanges :
        /\ issued[e] # {} => SendT1Of(e) \in issued[e]
        /\ (\E q \in issued[e] : q[1] = "FetchState") =>
              /\ BagIn(SendT1Of(e), acked[e])
              /\ status[e] = t1MessageSentState
              /\ snapshot[e] # Nil
              /\ snapshot[e].Status = t1MessageSentState
        /\ (pc[e] = "done" /\ halt[e] = "query" /\ status[e] = initialState) =>
              /\ issued[e] = {SendT1Of(e)}
              /\ lastUpdate[e].kind = "error"

\* C14: when Run has returned because a FetchState query gave an error or a
\* non-OK code, the last update it emitted carries an error and it is the
\* one error update of the Run.
C14_FetchErrorReported ==
    \A e \in Exchanges :
        (pc[e] = "done" /\ halt[e] = "query" /\ status[e] = t1MessageSentState)
            => lastUpdate[e].kind = "error" /\ nErrors[e] = 1

\* C15: the step that takes a truncated FetchState response leaves
\* receivedT1s, receivedT2s and receivedT3s as they were, emits the one
\* error update of the Run and ends Run.
C15_TruncatedReported ==
    [][\A e \in Exchanges :
          (halt[e] # "truncated" /\ halt'[e] = "truncated") =>
              /\ receivedT1s'[e] = receivedT1s[e]
              /\ receivedT2s'[e] = receivedT2s[e]
              /\ receivedT3s'[e] = receivedT3s[e]
              /\ pc'[e] = "done"
              /\ lastUpdate'[e].kind = "error"
              /\ nErrors'[e] = 1]_vars

\* C16: when Run has returned because a FetchState response held a message
\* with neither a T2 nor a T3 payload, the last update it emitted carries
\* an error.
C16_InvalidMessageReported ==
    \A e \in Exchanges :
        (pc[e] = "done" /\ halt[e] = "state") => lastUpdate[e].kind = "error"

\* A SendT2 or SendT3 query of e that was made and not acknowledged: it
\* gave an error or a non-OK code.
FailedSend(e) ==
    \E q \in issued[e] : q[1] \in {"SendT2", "SendT3"} /\ ~BagIn(q, acked[e])

\* C17: once a SendT2 or SendT3 query of e has failed, Run has returned.
C17_SendFailureFatal ==
    \A e \in Exchanges : FailedSend(e) => pc[e] = "done"

\* C18: a peer message on which a primitive fails is skipped and nothing
\* else: with every query acknowledged, an invocation of sendT2Messages,
\* sendT3Messages or processT3Messages ends only when no peer message it
\* has still to visit is eligible and well-formed.
C18_OnlyBadMessageSkipped ==
    [][\A e \in Exchanges :
          /\ (pc[e] = "sendT2" /\ pc'[e] # "sendT2") =>
                ~\E h \in todo[e] :
                    NeedsT2(e, h) /\ DecodeT1MessageOK(receivedT1s[e][h])
          /\ (pc[e] = "sendT3" /\ pc'[e] # "sendT3") =>
                ~\E h \in todo[e] : ~ContinuesT3(e, h) /\ ~AbortsT3(e, h)
          /\ (pc[e] = "processT3" /\ pc'[e] # "processT3") =>
                ~\E h \in todo[e] : NeedsProcessing(e, h) /\ T3Succeeds(e, h)]_vars

\* C19: each of fetchState, sendT2Messages and sendT3Messages is followed by
\* a snapshot update: when the next step starts, the last snapshot emitted
\* encodes the Exchange as it is.
C19_SnapshotAfterEachStep ==
    \A e \in Exchanges :
        /\ (pc[e] = "sendT2" /\ todo[e] = DOMAIN receivedT1s[e])
              => snapshot[e] = Marshal(e)
        /\ (pc[e] = "sendT3" /\ todo[e] = DOMAIN receivedT2s[e])
              => snapshot[e] = Marshal(e)
        /\ (pc[e] = "processT3" /\ todo[e] = DOMAIN receivedT3s[e])
              => snapshot[e] = Marshal(e)

\* C20: over the lifetime of an Exchange and of the Exchange rebuilt from
\* its last snapshot, the board acknowledges at most one SendT2 and at most
\* one SendT3 from it to each peer.
C20_RestartAtMostOnce ==
    \A e \in Exchanges :
        \A p \in Exchanges \ {e} :
            /\ CopiesIn(<<"SendT2", T1Hash(p)>>, acked[e]) <= 1
            /\ CopiesIn(<<"SendT3", T1Hash(p)>>, acked[e]) <= 1

IdleT2(e) ==
    ~\E h \in DOMAIN receivedT1s[e] :
        NeedsT2(e, h) /\ DecodeT1MessageOK(receivedT1s[e][h])

\* A second invocation of sendT3Messages on e's present maps would make no
\* query and store nothing: no T2 is left that it would answer.
IdleT3(e) ==
    ~\E h \in DOMAIN receivedT2s[e] : ~ContinuesT3(e, h) /\ ~AbortsT3(e, h)

\* C22: when sendT2Messages (sendT3Messages) has returned from an invocation
\* in which every query was acknowledged OK, a second invocation on the
\* same maps issues no SendT2 (SendT3) and changes no map.
C22_SendStepsIdempotent ==
    \A e \in Exchanges :
        /\ pc[e] = "update2" => IdleT2(e)
        /\ pc[e] = "update3" => IdleT3(e)

C25_T2Bookkeeping ==
    \A e \in Exchanges :
        /\ \A h \in DOMAIN repliedT1s[e] : BagIn(<<"SendT2", h>>, acked[e])
        /\ \A k \in DOMAIN sentT2Map[e] :
              \E c \in board :
                  /\ c.cmd = "SendT2"
                  /\ c.src = Hash(sentT1[e])
                  /\ c.payload = sentT2Map[e][k]

\* The T1 of source h, or the alpha decoded from it, is not stored.
MissingT1OrAlpha(e, h) ==
    ~Has(receivedT1s[e], h) \/ ~Has(receivedT1Alphas[e], h)

\* C26: a T2 whose source's T1 or alpha is not stored is passed over: with
\* every query acknowledged, an invocation of sendT3Messages that has such
\* a T2 to visit ends only when no other T2 it has to visit is to be
\* answered.
C26_MissingT1Skipped ==
    [][\A e \in Exchanges :
          (/\ pc[e] = "sendT3"
           /\ pc'[e] # "sendT3"
           /\ \E h \in todo[e] : MissingT1OrAlpha(e, h))
              => ~\E g \in todo[e] : ~ContinuesT3(e, g) /\ ~AbortsT3(e, g)]_vars

\* The T1 and the alpha of source h are stored and the candidate key of the
\* T2 stored for h does not open the beta of that T1.
BetaFails(e, h) ==
    /\ Has(receivedT1s[e], h)
    /\ Has(receivedT1Alphas[e], h)
    /\ DecodeT1MessageOK(receivedT1s[e][h])
    /\ ~DecryptT1BetaOK(GetCandidateKey(e, receivedT2s[e][h], receivedT1Alphas[e][h]),
                        T1Beta(receivedT1s[e][h]))

C28_T3Bookkeeping ==
    [][\A e \in Exchanges :
          /\ \A h \in DOMAIN decryptedT1Betas'[e] : BagIn(<<"SendT3", h>>, acked'[e])
          /\ \A k \in DOMAIN repliedT2s'[e] :
                \E h \in DOMAIN receivedT2s'[e] :
                    /\ Hash(receivedT2s'[e][h]) = k
                    /\ BagIn(<<"SendT3", h>>, acked'[e])
          /\ acked'[e] = acked[e] =>
                /\ decryptedT1Betas'[e] = decryptedT1Betas[e]
                /\ repliedT2s'[e] = repliedT2s[e]]_vars

\* A SendT3 of A to B has failed and a later one was acknowledged.
C28_Witness ==
    /\ Has(decryptedT1Betas["A"], T1Hash("B"))
    /\ <<"SendT3", T1Hash("D")>> \in issued["A"]
    /\ ~BagIn(<<"SendT3", T1Hash("D")>>, acked["A"])
    /\ ~Has(decryptedT1Betas["A"], T1Hash("D"))
    /\ pc["A"] = "update3"

\* C29: processT3Messages leaves its loop, and Run ends, with the first T3
\* that yields a plaintext, and a pass ends without a result only when no
\* T3 it has still to visit would yield one.
C29_FirstGoodT3Ends ==
    [][\A e \in Exchanges :
          /\ nResults'[e] > nResults[e] => pc'[e] = "done"
          /\ (pc[e] = "processT3" /\ pc'[e] = "fetch") =>
                ~\E h \in todo[e] : NeedsProcessing(e, h) /\ T3Succeeds(e, h)]_vars

\* Where Run is about to send a snapshot update.
UpdateSites == {"update1", "update2", "update3"}

\* The newest snapshot sent on e's updateChan: the last one buffered, or
\* the last one the consumer took.
Newest(e) ==
    LET sent == SelectSeq(updateChan[e].buf, LAMBDA u : u.Serialized # {}) IN
    IF sent # <<>> THEN The(sent[Len(sent)].Serialized) ELSE snapshot[e]

\* Snapshot old is not newer than snapshot new: the maps only grow.
NotNewer(old, new) ==
    /\ SubMap(old.ReceivedT1s, new.ReceivedT1s)
    /\ SubMap(old.ReceivedT2s, new.ReceivedT2s)
    /\ SubMap(old.RepliedT1s, new.RepliedT1s)
    /\ SubMap(old.RepliedT2s, new.RepliedT2s)
    /\ SubMap(old.DecryptedT1Betas, new.DecryptedT1Betas)

C31_SnapshotsAreT1Sent ==
    [][\A e \in Exchanges :
          /\ snapshot'[e] # Nil =>
                /\ snapshot'[e].Status = t1MessageSentState
                /\ snapshot'[e].SentT1 = GenerateType1Message(e)
          /\ (pc[e] = "run" /\ snapshot[e] # Nil /\ pc'[e] # "run") =>
                /\ pc'[e] = "fetch"
                /\ issued'[e] = issued[e]
                /\ acked'[e] = acked[e]]_vars

\* A, rebuilt from the snapshot taken after sendT2Messages, stands at
\* fetchState: it has answered B's T1 and holds B's T2 unanswered.
C31_Witness ==
    /\ pc["A"] = "fetch"
    /\ Marshal("A") = snapshot["A"]
    /\ Has(repliedT1s["A"], T1Hash("B"))
    /\ Has(receivedT2s["A"], T1Hash("B"))
    /\ repliedT2s["A"] = EmptyMap

\* C32: the status never leaves t1MessageSentState; with that status the
\* sent T1 is not modified and Run does not come to sendT1; sendT1 is
\* entered only from Run's switch in the initial status and left for the
\* snapshot or the return; and at most one SendT1 of e is ever acknowledged,
\* also across rebuilds from snapshots.
C32_T1SentOnce ==
    [][\A e \in Exchanges :
          /\ status[e] = t1MessageSentState =>
                /\ status'[e] = t1MessageSentState
                /\ sentT1'[e] = sentT1[e]
                /\ pc'[e] # "sendT1"
          /\ (pc'[e] = "sendT1" /\ pc[e] # "sendT1") =>
                pc[e] = "run" /\ status[e] = initialState
          /\ (pc[e] = "sendT1" /\ pc'[e] # "sendT1") =>
                pc'[e] \in {"update1", "done"}
          /\ CopiesIn(SendT1Of(e), acked'[e]) <= 1]_vars

\* A, rebuilt from the snapshot taken after sendT2Messages, has passed
\* fetchState again with its one SendT1 acknowledged.
C32_Witness ==
    /\ pc["A"] = "sendT2"
    /\ CopiesIn(SendT1Of("A"), acked["A"]) = 1
    /\ Has(snapshot["A"].ReceivedT2s, T1Hash("B"))
    /\ Has(repliedT1s["A"], T1Hash("B"))
    /\ Has(receivedT2s["A"], T1Hash("B"))
    /\ repliedT2s["A"] = EmptyMap

\* C33: no SendT2 and no SendT3 query of e has the hash of e's own T1 as
\* its destination, also when the database returns e's own T1 and messages
\* under e's own T1 hash.
C33_NoSendToSelf ==
    \A e \in Exchanges :
        \A q \in issued[e] :
            q[1] \in {"SendT2", "SendT3"} => q[2] # Hash(sentT1[e])

\* A holds its own T1 and a T2 under its own T1 hash, has answered B's T1
\* and B's T2, and is through sendT3Messages once more.
C33_Witness ==
    /\ pc["A"] = "update3"
    /\ Has(receivedT1s["A"], Hash(sentT1["A"]))
    /\ Has(receivedT2s["A"], Hash(sentT1["A"]))
    /\ BagIn(<<"SendT2", T1Hash("B")>>, acked["A"])
    /\ BagIn(<<"SendT3", T1Hash("B")>>, acked["A"])

\* C39: the keys of repliedT1s are keys of receivedT1Alphas, and the keys of
\* receivedT1Alphas are keys of receivedT1s other than the hash of the own
\* T1.
C39_AlphasBetweenRepliedAndReceived ==
    \A e \in Exchanges :
        /\ DOMAIN repliedT1s[e] \subseteq DOMAIN receivedT1Alphas[e]
        /\ DOMAIN receivedT1Alphas[e]
              \subseteq (DOMAIN receivedT1s[e]) \ {Hash(sentT1[e])}

\* A holds its own T1 and those of B and D; it has answered B, and its
\* SendT2 to D has failed after D's alpha was stored.
C39_Witness ==
    /\ DOMAIN receivedT1s["A"] = {T1Hash("A"), T1Hash("B"), T1Hash("D")}
    /\ DOMAIN receivedT1Alphas["A"] = {T1Hash("B"), T1Hash("D")}
    /\ DOMAIN repliedT1s["A"] = {T1Hash("B")}

\* C34: a fetchState that returns an error, which ends Run, leaves
\* receivedT1s, receivedT2s and receivedT3s as they were before the call.
C34_FailedFetchAtomic ==
    [][\A e \in Exchanges :
          (pc[e] = "fetch" /\ pc'[e] = "done") =>
              /\ receivedT1s'[e] = receivedT1s[e]
              /\ receivedT2s'[e] = receivedT2s[e]
              /\ receivedT3s'[e] = receivedT3s[e]]_vars

\* C35: a result update is emitted only from the T3 of a source h that is a
\* key of decryptedT1Betas, to which a SendT3 was acknowledged, and whose T1
\* and T2 are stored; the result is the plaintext of that T3.
C35_ResultOnlyFromAnswered ==
    [][\A e \in Exchanges :
          nResults'[e] > nResults[e] =>
              \E h \in todo[e] \ todo'[e] :
                  /\ Has(decryptedT1Betas[e], h)
                  /\ BagIn(<<"SendT3", h>>, acked[e])
                  /\ Has(receivedT1s[e], h)
                  /\ Has(receivedT2s[e], h)
                  /\ Has(receivedT3s[e], h)
                  /\ lastUpdate'[e].result =
                        ProcessType3Message(e, receivedT3s[e][h],
                                            T1Gamma(receivedT1s[e][h]),
                                            decryptedT1Betas[e][h])]_vars

\* A has emitted B's payload as its result while it holds a T3 under D's
\* hash, whose beta it has not decrypted.
C35_Witness ==
    /\ nResults["A"] = 1
    /\ lastUpdate["A"] = [kind |-> "result", result |-> Payload("B")]
    /\ Has(receivedT3s["A"], T1Hash("D"))
    /\ ~Has(decryptedT1Betas["A"], T1Hash("D"))

\* How far Run is in one turn of its loop.
Rank(p) ==
    CASE p = "run" -> 0
      [] p = "sendT1" -> 1
      [] p = "update1" -> 2
      [] p = "fetch" -> 3
      [] p = "sendT2" -> 4
      [] p = "update2" -> 5
      [] p = "sendT3" -> 6
      [] p = "update3" -> 7
      [] p = "processT3" -> 8
      [] OTHER -> 9

\* C36: once shutdownChan is closed, with every later query answered with
\* an error and the updates drained, Run returns; until then it only moves
\* forward in its turn of the loop or from processT3Messages to the next
\* fetchState, which it does not pass; and no send of e is acknowledged any
\* more.
C36_CancellationTerminates ==
    /\ \A e \in {"A", "B"} : [](shutdown[e] => <>(pc[e] = "done"))
    /\ [][\A e \in Exchanges :
             shutdown[e] =>
                 /\ acked'[e] = acked[e]
                 /\ pc[e] = "fetch" => pc'[e] \in {"fetch", "done"}
                 /\ pc'[e] # pc[e] =>
                       \/ Rank(pc'[e]) > Rank(pc[e])
                       \/ pc[e] = "processT3" /\ pc'[e] = "fetch"]_vars

\* A, stopped while it was in sendT2Messages with B's T1 to answer, has
\* returned after the snapshot that followed the failed SendT2.
C36_Witness ==
    /\ pc["A"] = "done"
    /\ halt["A"] = "shutdown"
    /\ <<"SendT2", T1Hash("B")>> \in issued["A"]
    /\ ~BagIn(<<"SendT2", T1Hash("B")>>, acked["A"])
    /\ pc["B"] # "done"

\* C37: an entry of receivedT1s, receivedT2s or receivedT3s is never changed
\* or removed, whatever a later FetchState response carries under its key,
\* and the message that carries a T2 and a T3 payload under D's T1 hash is
\* stored as a T2 only.
C37_FirstWriteWins ==
    [][\A e \in Exchanges :
          /\ SubMap(receivedT1s[e], receivedT1s'[e])
          /\ SubMap(receivedT2s[e], receivedT2s'[e])
          /\ SubMap(receivedT3s[e], receivedT3s'[e])
          /\ ~Has(receivedT3s'[e], T1Hash("D"))
          /\ Has(receivedT2s'[e], T1Hash("D")) =>
                receivedT2s'[e][T1Hash("D")] = PeerT2("D", "A")]_vars

\* A holds junk as B's T1, D's T2 and B's T3 under B's T1 hash and the T2 of
\* the message with both payloads; its last snapshot held B's entries, and
\* a later response has brought D's T1.
C37_Witness ==
    /\ pc["A"] = "sendT2"
    /\ Has(receivedT1s["A"], T1Hash("B"))
    /\ receivedT1s["A"][T1Hash("B")] = JunkT1
    /\ Has(receivedT2s["A"], T1Hash("B"))
    /\ receivedT2s["A"][T1Hash("B")] = PeerT2("D", "A")
    /\ Has(receivedT3s["A"], T1Hash("B"))
    /\ receivedT3s["A"][T1Hash("B")] = PeerT3("B", "A")
    /\ Has(receivedT2s["A"], T1Hash("D"))
    /\ Has(receivedT1s["A"], T1Hash("D"))
    /\ receivedT1s["A"][T1Hash("D")] = GenerateType1Message("D")
    /\ snapshot["A"] # Nil
    /\ Has(snapshot["A"].ReceivedT1s, T1Hash("B"))
    /\ Has(snapshot["A"].ReceivedT2s, T1Hash("B"))
    /\ Has(snapshot["A"].ReceivedT3s, T1Hash("B"))
    /\ ~Has(snapshot["A"].ReceivedT1s, T1Hash("D"))

\* C38: Run entered with a status that is neither initialState nor
\* t1MessageSentState sends one update, with the Error field alone set,
\* and returns; it issues no query and changes no field of the Exchange.
C38_UnknownStatusEndsRun ==
    [][\A e \in Exchanges :
          (/\ pc[e] = "run"
           /\ status[e] \notin {initialState, t1MessageSentState}
           /\ pc'[e] # "run") =>
              /\ pc'[e] = "done"
              /\ nErrors'[e] = nErrors[e] + 1
              /\ lastUpdate'[e].kind = "error"
              /\ lastFields'[e] = {"Error"}
              /\ nResults'[e] = nResults[e]
              /\ snapshot'[e] = snapshot[e]
              /\ issued'[e] = issued[e]
              /\ acked'[e] = acked[e]
              /\ board' = board
              /\ exvars' = exvars]_vars

\* A, rebuilt with status 2 from a snapshot that held B's T2 and A's answer
\* to B's T1, has returned after the one error update; B goes on.
C38_Witness ==
    /\ pc["A"] = "done"
    /\ halt["A"] = "status"
    /\ status["A"] = 2
    /\ nErrors["A"] = 1
    /\ lastFields["A"] = {"Error"}
    /\ Has(receivedT2s["A"], T1Hash("B"))
    /\ Has(repliedT1s["A"], T1Hash("B"))
    /\ pc["B"] # "done"

====
